---------------------------- MODULE Spec2Model ----------------------------
(***************************************************************************)
(* Total/static pressure and temperature sensitivity scripts (ASME PTC 10) *)
(*                                                                         *)
(*   src/2025 - Total and static pressure PTC10/pressure_sensitivity.py    *)
(*   src/2025 - Total and static temperature PTC10/temperature_sensitivity.py *)
(*                                                                         *)
(* Both scripts compute with binary floating point.  The arithmetic is     *)
(* modelled as a binary floating-point format with round-to-nearest,       *)
(* ties-to-even, a significand of Prec bits and a smallest quantum of      *)
(* 2^-FracBits (the format of the code is binary64: 53 bits; the model     *)
(* keeps the rounding behaviour at a width TLC can enumerate).  A finite   *)
(* value is the integer number of quanta it holds.  Overflow to infinity   *)
(* and the sign of zero are not modelled.                                  *)
(***************************************************************************)
EXTENDS Integers, Sequences, FiniteSets, TLC

\* ------------------------------------------------------------------------
\* Bounds of the model
\* ------------------------------------------------------------------------

\* significand width of the modelled floating-point format, in bits
Prec == 11

\* the smallest quantum of the format is 2^-FracBits
FracBits == 5

\* the longest chain of conversion calls made on one set of arguments
MaxCalls == 2

\* ------------------------------------------------------------------------
\* Floating-point values and arithmetic
\* ------------------------------------------------------------------------

\* number of quanta in 1.0
Quantum == 2 ^ FracBits

Abs(n) == IF n < 0 THEN -n ELSE n

Sgn(n) == IF n < 0 THEN -1 ELSE IF n > 0 THEN 1 ELSE 0

RECURSIVE BitLen(_)
BitLen(n) == IF n = 0 THEN 0 ELSE 1 + BitLen(n \div 2)

\* spacing of the representable values at magnitude n (in quanta)
Ulp(n) == IF Abs(n) < 2 ^ Prec THEN 1 ELSE 2 ^ (BitLen(Abs(n)) - Prec)

\* num/den >= 0 rounded to the nearest representable value, ties to even
RoundMag(num, den) ==
    LET s == Ulp(num \div den)
        d == den * s
        q == num \div d
        r == num % d
        up == (2 * r > d) \/ (2 * r = d /\ q % 2 = 1)
    IN  (IF up THEN q + 1 ELSE q) * s

\* the rational num/den (den # 0), in quanta, rounded to the format
Round(num, den) == Sgn(num) * Sgn(den) * RoundMag(Abs(num), Abs(den))

\* A value is a record: cls is "fin" (v quanta), "inf" (v = +1 or -1),
\* "nan", or "err" (the expression raised ZeroDivisionError instead of
\* yielding a value); np tells a numpy.float64 from a Python float/int.
Val(c, n, t) == [cls |-> c, v |-> n, np |-> t]

Fin(n, t) == Val("fin", n, t)

Inf(s, t) == Val("inf", s, t)

NaN(t) == Val("nan", 0, t)

Err == Val("err", 0, FALSE)

\* a Python literal num/den (0.5 is Lit(1, 2), 2080 is Lit(2080, 1))
Lit(num, den) == Fin(Round(num * Quantum, den), FALSE)

\* the same value as an element of a numpy float64 array
AsNumpy(a) == Val(a.cls, a.v, TRUE)

IsFin(a) == a.cls = "fin"

IsZero(a) == a.cls = "fin" /\ a.v = 0

\* sign of a finite or infinite value
SignOf(a) == Sgn(a.v)

\* Python's == on two values: nan equals nothing, the type does not matter
FEq(a, b) ==
    /\ a.cls \in {"fin", "inf"}
    /\ b.cls \in {"fin", "inf"}
    /\ a.cls = b.cls
    /\ a.v = b.v

FNeg(a) == IF a.cls \in {"fin", "inf"} THEN Val(a.cls, -a.v, a.np) ELSE a

\* a + b
FAdd(a, b) ==
    LET t == a.np \/ b.np IN
    IF a.cls = "err" \/ b.cls = "err" THEN Err
    ELSE IF a.cls = "nan" \/ b.cls = "nan" THEN NaN(t)
    ELSE IF a.cls = "inf" /\ b.cls = "inf"
         THEN (IF a.v = b.v THEN Inf(a.v, t) ELSE NaN(t))
    ELSE IF a.cls = "inf" THEN Inf(a.v, t)
    ELSE IF b.cls = "inf" THEN Inf(b.v, t)
    ELSE Fin(Round(a.v + b.v, 1), t)

\* a - b
FSub(a, b) == FAdd(a, FNeg(b))

\* a * b
FMul(a, b) ==
    LET t == a.np \/ b.np IN
    IF a.cls = "err" \/ b.cls = "err" THEN Err
    ELSE IF a.cls = "nan" \/ b.cls = "nan" THEN NaN(t)
    ELSE IF a.cls = "inf" \/ b.cls = "inf"
         THEN (IF IsZero(a) \/ IsZero(b) THEN NaN(t)
               ELSE Inf(SignOf(a) * SignOf(b), t))
    ELSE Fin(Round(a.v * b.v, Quantum), t)

\* FDiv with a zero divisor raising whatever the operand types
FDiv_AlwaysRaises(a, b) ==
    LET t == a.np \/ b.np IN
    IF a.cls = "err" \/ b.cls = "err" THEN Err
    ELSE IF IsZero(b) THEN Err
    ELSE IF a.cls = "nan" \/ b.cls = "nan" THEN NaN(t)
    ELSE IF a.cls = "inf"
         THEN (IF b.cls = "inf" THEN NaN(t) ELSE Inf(a.v * SignOf(b), t))
    ELSE IF b.cls = "inf" THEN Fin(0, t)
    ELSE Fin(Round(a.v * Quantum, b.v), t)

\* a / b: a zero divisor raises ZeroDivisionError between Python numbers;
\* when an operand is a numpy.float64 it yields nan (0/0) or a signed
\* infinity with a RuntimeWarning and no exception
FDiv(a, b) ==
    LET t == a.np \/ b.np IN
    IF a.cls = "err" \/ b.cls = "err" THEN Err
    ELSE IF IsZero(b)
         THEN (IF ~t THEN Err
               ELSE IF a.cls = "nan" \/ IsZero(a) THEN NaN(t)
               ELSE Inf(SignOf(a), t))
    ELSE IF a.cls = "nan" \/ b.cls = "nan" THEN NaN(t)
    ELSE IF a.cls = "inf"
         THEN (IF b.cls = "inf" THEN NaN(t) ELSE Inf(a.v * SignOf(b), t))
    ELSE IF b.cls = "inf" THEN Fin(0, t)
    ELSE Fin(Round(a.v * Quantum, b.v), t)

\* a ** 2
FSquare(a) == FMul(a, a)


\* ------------------------------------------------------------------------
\* Conversions (pure functions of both scripts)
\* ------------------------------------------------------------------------

Half == Lit(1, 2)

One == Lit(1, 1)

\* static_to_total_pressure with the dynamic pressure subtracted
static_to_total_pressure_Minus(P_static, V, rho) ==
    FSub(P_static, FMul(FMul(Half, rho), FSquare(V)))

\* pressure_sensitivity.py: P_static + 0.5 * rho * V**2
static_to_total_pressure(P_static, V, rho) ==
    FAdd(P_static, FMul(FMul(Half, rho), FSquare(V)))

\* total_to_static_pressure without the factor 0.5
total_to_static_pressure_NoHalf(P_total, V, rho) ==
    FSub(P_total, FMul(rho, FSquare(V)))

\* pressure_sensitivity.py: P_total - 0.5 * rho * V**2
total_to_static_pressure(P_total, V, rho) ==
    FSub(P_total, FMul(FMul(Half, rho), FSquare(V)))

\* temperature_sensitivity.py: T_static + 0.5 * V**2 / Cp
static_to_total_temperature(T_static, V, Cp) ==
    FAdd(T_static, FDiv(FMul(Half, FSquare(V)), Cp))

\* total_to_static_temperature with V in place of V**2
total_to_static_temperature_NoSquare(T_total, V, Cp) ==
    FSub(T_total, FDiv(FMul(Half, V), Cp))

\* temperature_sensitivity.py: T_total - 0.5 * V**2 / Cp
total_to_static_temperature(T_total, V, Cp) ==
    FSub(T_total, FDiv(FMul(Half, FSquare(V)), Cp))

\* measured_to_total_temperature with rf in place of 1 - rf
measured_to_total_temperature_Rf(T_measured, V, Cp, rf) ==
    FSub(T_measured, FDiv(FMul(FMul(rf, Half), FSquare(V)), Cp))

\* temperature_sensitivity.py: T_measured - (1 - rf) * 0.5 * V**2 / Cp
measured_to_total_temperature(T_measured, V, Cp, rf) ==
    FSub(T_measured,
         FDiv(FMul(FMul(FSub(One, rf), Half), FSquare(V)), Cp))

\* ------------------------------------------------------------------------
\* Constants of the scripts
\* ------------------------------------------------------------------------

\* number of velocity samples: np.linspace(0, 300, 100)
NumSamples == 100

\* last velocity of the sweep, in m/s
MaxVelocity == 300

\* P_static = 1.0  [bara]
P_static == Lit(1, 1)

\* 10**5  [Pa per bar]
PaPerBar == Lit(100000, 1)

\* the literal 100 of the percentage
Hundred == Lit(100, 1)

\* T_total = 293.15  [K]
T_total == Lit(29315, 100)

\* Cp = 2080  [J/(kg*K)]
CpGas == Lit(2080, 1)

\* rf = 0.65
rf == Lit(65, 100)

\* file names of the two charts
PressureChart == "relative_pressure_difference_vs_velocity.png"

TemperatureChart == "temperature_error_vs_velocity.png"

\* linspace as with endpoint=False: step = (stop - start) / num
linspace_NoEndpoint(start, stop, num) ==
    LET step == FDiv(FSub(stop, start), Lit(num, 1))
    IN  [i \in 1..num |-> AsNumpy(FAdd(FMul(Lit(i - 1, 1), step), start))]

\* np.linspace(start, stop, num): arange(0, num) * step + start with
\* step = (stop - start) / (num - 1), the last sample set to stop
linspace(start, stop, num) ==
    LET step == FDiv(FSub(stop, start), Lit(num - 1, 1))
    IN  [i \in 1..num |->
            AsNumpy(IF i = num THEN stop
                    ELSE FAdd(FMul(Lit(i - 1, 1), step), start))]

\* densities the equation-of-state lookup may return (kg/m^3)
GasDensities == {Lit(1, 2), Lit(3, 4), Lit(1, 1)}

\* the matplotlib backend of the run: an interactive one, whose show()
\* blocks until the window is closed and then destroys the figure, or a
\* non-interactive one, whose show() returns at once
Backends == {"interactive", "noninteractive"}

\* no figure open
NoFigure == [open |-> FALSE, lines |-> <<>>]

\* plt.figure(): a new, empty current figure
NewFigure == [open |-> TRUE, lines |-> <<>>]

\* a name not yet bound
Unset == Val("unset", 0, FALSE)

\* ------------------------------------------------------------------------
\* Arguments the conversions are called with
\* ------------------------------------------------------------------------

\* pressures / temperatures
XValues == {Lit(-1, 10), Lit(0, 1), Lit(1, 10), Lit(1, 1),
            Lit(29315, 100), Lit(100000, 1)}

\* velocities, as Python floats and as numpy.float64
VValues ==
    LET vs == {Lit(0, 1), Lit(1, 1), Lit(50, 1), Lit(300, 1)}
    IN  vs \cup {AsNumpy(v) : v \in vs}

RhoValues == {Lit(-1, 1), Lit(0, 1), Lit(3, 4)}

CpValues == {Lit(-2, 1), Lit(0, 1), Lit(2080, 1)}

RfValues == {Lit(0, 1), Lit(65, 100), Lit(1, 1)}

\* ------------------------------------------------------------------------
\* State
\* ------------------------------------------------------------------------

VARIABLES
    program,        \* what this run executes: "calls", "pressure", "temperature"
    backend,        \* matplotlib backend of the run
    files,          \* the savefig writes made, in order
    fn_args,        \* arguments of the conversion calls
    fn_trace,       \* the calls made: <<[op, ret]>>
    pcP,            \* pressure script: next statement
    iP,             \* pressure script: samples the for loop has consumed
    rho,            \* gas_properties['rho']
    velocitiesP,    \* velocities (pressure script)
    P_static_values,
    P_relative_diff_total_static,
    figP,           \* current figure of the pressure script
    pcT,            \* temperature script: next statement
    iT,             \* temperature script: samples the for loop has consumed
    Cp,             \* Cp (temperature script)
    velocitiesT,    \* velocities (temperature script)
    T_measured_values,
    T_static_values,
    T_diff_measured_static,
    figT            \* current figure of the temperature script

envVars == <<program, backend, Cp>>

fnVars == <<fn_args, fn_trace>>

pVars == <<pcP, iP, rho, velocitiesP, P_static_values,
           P_relative_diff_total_static, figP>>

tVars == <<pcT, iT, velocitiesT, T_measured_values, T_static_values,
           T_diff_measured_static, figT>>

vars == <<envVars, files, fnVars, pVars, tVars>>

\* the state at the start of a run whose temperature script has Cp = cp.
\* A run executes one program: a script, or calls of the conversions; the
\* call arguments matter only to the latter, the backend only to a script.
InitWith(cp) ==
    /\ program \in {"calls", "pressure", "temperature"}
    /\ backend \in Backends
    /\ files = <<>>
    /\ fn_args \in [x : XValues, V : VValues, rho : RhoValues,
                    Cp : CpValues, rf : RfValues]
    /\ (program # "calls" =>
            fn_args = [x |-> Lit(0, 1), V |-> Lit(0, 1), rho |-> Lit(0, 1),
                       Cp |-> Lit(0, 1), rf |-> Lit(0, 1)])
    /\ (program = "calls" => backend = "noninteractive")
    /\ fn_trace = <<>>
    /\ pcP = "lookup"
    /\ iP = 0
    /\ rho = Unset
    /\ velocitiesP = <<>>
    /\ P_static_values = <<>>
    /\ P_relative_diff_total_static = <<>>
    /\ figP = NoFigure
    /\ pcT = "linspace"
    /\ iT = 0
    /\ Cp = cp
    /\ velocitiesT = <<>>
    /\ T_measured_values = <<>>
    /\ T_static_values = <<>>
    /\ T_diff_measured_static = <<>>
    /\ figT = NoFigure

Init == InitWith(CpGas)

\* ------------------------------------------------------------------------
\* Calls of the conversions
\* ------------------------------------------------------------------------

\* the value the next call converts: the first argument, or the value the
\* previous call returned
CurArg ==
    IF fn_trace = <<>> THEN fn_args.x ELSE fn_trace[Len(fn_trace)].ret

CanCall ==
    /\ program = "calls"
    /\ Len(fn_trace) < MaxCalls
    /\ CurArg.cls # "err"

Called(op, ret) ==
    /\ fn_trace' = Append(fn_trace, [op |-> op, ret |-> ret])
    /\ UNCHANGED <<envVars, files, fn_args, pVars, tVars>>

Call_static_to_total_pressure ==
    /\ CanCall
    /\ Called("static_to_total_pressure",
              static_to_total_pressure(CurArg, fn_args.V, fn_args.rho))

Call_total_to_static_pressure ==
    /\ CanCall
    /\ Called("total_to_static_pressure",
              total_to_static_pressure(CurArg, fn_args.V, fn_args.rho))

Call_static_to_total_temperature ==
    /\ CanCall
    /\ Called("static_to_total_temperature",
              static_to_total_temperature(CurArg, fn_args.V, fn_args.Cp))

Call_total_to_static_temperature ==
    /\ CanCall
    /\ Called("total_to_static_temperature",
              total_to_static_temperature(CurArg, fn_args.V, fn_args.Cp))

Call_measured_to_total_temperature ==
    /\ CanCall
    /\ Called("measured_to_total_temperature",
              measured_to_total_temperature(CurArg, fn_args.V, fn_args.Cp,
                                            fn_args.rf))

\* ------------------------------------------------------------------------
\* matplotlib.pyplot, as far as the scripts use it
\* ------------------------------------------------------------------------

\* plt.plot(x, y): one more line on the current figure
Plot(fig, x, y) == [fig EXCEPT !.lines = Append(@, [x |-> x, y |-> y])]

\* plt.gcf(): the current figure, a new empty one when none is open
CurrentFigure(fig) == IF fig.open THEN fig ELSE NewFigure

\* what plt.savefig(name) writes: the lines of the current figure
Written(name, fig) == [name |-> name, lines |-> CurrentFigure(fig).lines]

\* plt.show(): an interactive backend returns when the window has been
\* closed, which destroys the figure; a non-interactive one returns at once
Show(fig) == IF backend = "interactive" THEN NoFigure ELSE fig

\* ------------------------------------------------------------------------
\* pressure_sensitivity.py, statement by statement
\* ------------------------------------------------------------------------

\* gas_properties = gerg.calculate_from_PT(...)
P_Lookup ==
    /\ program = "pressure"
    /\ pcP = "lookup"
    /\ rho' \in GasDensities
    /\ pcP' = "linspace"
    /\ UNCHANGED <<envVars, files, fnVars, tVars, iP, velocitiesP,
                   P_static_values, P_relative_diff_total_static, figP>>

\* velocities = np.linspace(0, 300, 100) and the two empty result lists
P_Linspace ==
    /\ program = "pressure"
    /\ pcP = "linspace"
    /\ velocitiesP' = linspace(Lit(0, 1), Lit(MaxVelocity, 1), NumSamples)
    /\ P_static_values' = <<>>
    /\ P_relative_diff_total_static' = <<>>
    /\ pcP' = "sweep"
    /\ UNCHANGED <<envVars, files, fnVars, tVars, iP, rho, figP>>

\* P_SweepStep with the static pressure passed in bara, not in Pascals
P_SweepStep_NoPascals ==
    /\ program = "pressure"
    /\ pcP = "sweep"
    /\ iP < Len(velocitiesP)
    /\ LET V == velocitiesP[iP + 1]
           P_total == FDiv(static_to_total_pressure(P_static, V, rho),
                           PaPerBar)
           relative_difference ==
               FDiv(FMul(Hundred, FSub(P_total, P_static)), P_static)
       IN  /\ P_static_values' = Append(P_static_values, P_static)
           /\ P_relative_diff_total_static' =
                  Append(P_relative_diff_total_static, relative_difference)
    /\ iP' = iP + 1
    /\ UNCHANGED <<envVars, files, fnVars, tVars, pcP, rho, velocitiesP,
                   figP>>

\* one iteration of "for V in velocities"
P_SweepStep ==
    /\ program = "pressure"
    /\ pcP = "sweep"
    /\ iP < Len(velocitiesP)
    /\ LET V == velocitiesP[iP + 1]
           P_total == FDiv(static_to_total_pressure(
                               FMul(P_static, PaPerBar), V, rho),
                           PaPerBar)
           relative_difference ==
               FDiv(FMul(Hundred, FSub(P_total, P_static)), P_static)
       IN  /\ P_static_values' = Append(P_static_values, P_static)
           /\ P_relative_diff_total_static' =
                  Append(P_relative_diff_total_static, relative_difference)
    /\ iP' = iP + 1
    /\ UNCHANGED <<envVars, files, fnVars, tVars, pcP, rho, velocitiesP,
                   figP>>

\* the for loop ends when the samples are exhausted
P_SweepEnd ==
    /\ program = "pressure"
    /\ pcP = "sweep"
    /\ iP = Len(velocitiesP)
    /\ pcP' = "figure"
    /\ UNCHANGED <<envVars, files, fnVars, tVars, iP, rho, velocitiesP,
                   P_static_values, P_relative_diff_total_static, figP>>

\* plt.figure(figsize=(10, 6))
P_Figure ==
    /\ program = "pressure"
    /\ pcP = "figure"
    /\ figP' = NewFigure
    /\ pcP' = "plot"
    /\ UNCHANGED <<envVars, files, fnVars, tVars, iP, rho, velocitiesP,
                   P_static_values, P_relative_diff_total_static>>

\* plt.plot(velocities, P_relative_diff_total_static, ...), labels, grid
P_Plot ==
    /\ program = "pressure"
    /\ pcP = "plot"
    /\ figP' = Plot(CurrentFigure(figP), velocitiesP,
                    P_relative_diff_total_static)
    /\ pcP' = "savefig"
    /\ UNCHANGED <<envVars, files, fnVars, tVars, iP, rho, velocitiesP,
                   P_static_values, P_relative_diff_total_static>>

\* plt.savefig('relative_pressure_difference_vs_velocity.png', ...)
P_Savefig ==
    /\ program = "pressure"
    /\ pcP = "savefig"
    /\ files' = Append(files, Written(PressureChart, figP))
    /\ figP' = CurrentFigure(figP)
    /\ pcP' = "show"
    /\ UNCHANGED <<envVars, fnVars, tVars, iP, rho, velocitiesP,
                   P_static_values, P_relative_diff_total_static>>

\* plt.show()
P_Show ==
    /\ program = "pressure"
    /\ pcP = "show"
    /\ figP' = Show(figP)
    /\ pcP' = "done"
    /\ UNCHANGED <<envVars, files, fnVars, tVars, iP, rho, velocitiesP,
                   P_static_values, P_relative_diff_total_static>>

\* ------------------------------------------------------------------------
\* temperature_sensitivity.py, statement by statement
\* ------------------------------------------------------------------------

\* velocities = np.linspace(0, 300, 100) and the three empty result lists
T_Linspace ==
    /\ program = "temperature"
    /\ pcT = "linspace"
    /\ velocitiesT' = linspace(Lit(0, 1), Lit(MaxVelocity, 1), NumSamples)
    /\ T_measured_values' = <<>>
    /\ T_static_values' = <<>>
    /\ T_diff_measured_static' = <<>>
    /\ pcT' = "sweep"
    /\ UNCHANGED <<envVars, files, fnVars, pVars, iT, figT>>

\* one iteration of "for V in velocities"; an exception raised by the
\* arithmetic is not caught and ends the script
T_SweepStep ==
    /\ program = "temperature"
    /\ pcT = "sweep"
    /\ iT < Len(velocitiesT)
    /\ LET V == velocitiesT[iT + 1]
           T_static == total_to_static_temperature(T_total, V, Cp)
           T_measured ==
               FAdd(T_static,
                    FDiv(FMul(FMul(FSub(One, rf), Half), FSquare(V)), Cp))
       IN  IF T_static.cls = "err" \/ T_measured.cls = "err"
           THEN /\ pcT' = "fault"
                /\ UNCHANGED <<iT, T_static_values, T_measured_values,
                               T_diff_measured_static>>
           ELSE /\ T_static_values' = Append(T_static_values, T_static)
                /\ T_measured_values' = Append(T_measured_values, T_measured)
                /\ T_diff_measured_static' =
                       Append(T_diff_measured_static,
                              FSub(T_measured, T_static))
                /\ iT' = iT + 1
                /\ pcT' = pcT
    /\ UNCHANGED <<envVars, files, fnVars, pVars, velocitiesT, figT>>

\* the for loop ends when the samples are exhausted
T_SweepEnd ==
    /\ program = "temperature"
    /\ pcT = "sweep"
    /\ iT = Len(velocitiesT)
    /\ pcT' = "figure"
    /\ UNCHANGED <<envVars, files, fnVars, pVars, iT, velocitiesT,
                   T_measured_values, T_static_values,
                   T_diff_measured_static, figT>>

\* plt.figure(figsize=(10, 6))
T_Figure ==
    /\ program = "temperature"
    /\ pcT = "figure"
    /\ figT' = NewFigure
    /\ pcT' = "plot"
    /\ UNCHANGED <<envVars, files, fnVars, pVars, iT, velocitiesT,
                   T_measured_values, T_static_values,
                   T_diff_measured_static>>

\* plt.plot(velocities, T_diff_measured_static, ...), labels, title, grid
T_Plot ==
    /\ program = "temperature"
    /\ pcT = "plot"
    /\ figT' = Plot(CurrentFigure(figT), velocitiesT, T_diff_measured_static)
    /\ pcT' = "show"
    /\ UNCHANGED <<envVars, files, fnVars, pVars, iT, velocitiesT,
                   T_measured_values, T_static_values,
                   T_diff_measured_static>>

\* plt.show()
T_Show ==
    /\ program = "temperature"
    /\ pcT = "show"
    /\ figT' = Show(figT)
    /\ pcT' = "savefig"
    /\ UNCHANGED <<envVars, files, fnVars, pVars, iT, velocitiesT,
                   T_measured_values, T_static_values,
                   T_diff_measured_static>>

\* plt.savefig('temperature_error_vs_velocity.png', ...)
T_Savefig ==
    /\ program = "temperature"
    /\ pcT = "savefig"
    /\ files' = Append(files, Written(TemperatureChart, figT))
    /\ figT' = CurrentFigure(figT)
    /\ pcT' = "done"
    /\ UNCHANGED <<envVars, fnVars, pVars, iT, velocitiesT,
                   T_measured_values, T_static_values,
                   T_diff_measured_static>>

\* ------------------------------------------------------------------------
\* Specifications
\* ------------------------------------------------------------------------

Next ==
    \/ Call_static_to_total_pressure
    \/ Call_total_to_static_pressure
    \/ Call_static_to_total_temperature
    \/ Call_total_to_static_temperature
    \/ Call_measured_to_total_temperature
    \/ P_Lookup
    \/ P_Linspace
    \/ P_SweepStep
    \/ P_SweepEnd
    \/ P_Figure
    \/ P_Plot
    \/ P_Savefig
    \/ P_Show
    \/ T_Linspace
    \/ T_SweepStep
    \/ T_SweepEnd
    \/ T_Figure
    \/ T_Plot
    \/ T_Show
    \/ T_Savefig

\* the scripts as written (Cp = 2080)
Spec == Init /\ [][Next]_vars

\* the temperature script run with Cp = 0
InitCp0 == InitWith(Lit(0, 1))

SpecCp0 == InitCp0 /\ [][Next]_vars

\* ------------------------------------------------------------------------
\* Properties
\* ------------------------------------------------------------------------

Zero == Lit(0, 1)

\* the first n calls were ops, in this order
Calls(ops) ==
    /\ program = "calls"
    /\ Len(fn_trace) >= Len(ops)
    /\ \A k \in 1..Len(ops) : fn_trace[k].op = ops[k]

\* 0.5 * rho * V**2 and 0.5 * V**2 / Cp, as the conversions compute them
DynamicPressure(V, r) == FMul(FMul(Half, r), FSquare(V))

KineticRise(V, c) == FDiv(FMul(Half, FSquare(V)), c)

\* r is t - d, got back from t = x + d, within the rounding of the two
\* operations, and is x itself when the sum x + d was exact
WithinRounding(x, d, t, r) ==
    /\ IsFin(t)
    /\ IsFin(r)
    /\ 2 * Abs(r.v - x.v) <= Ulp(t.v) + Ulp(r.v)
    /\ (t.v = x.v + d.v => r.v = x.v)

PressureRoundTrip ==
    /\ Calls(<<"static_to_total_pressure", "total_to_static_pressure">>)
    /\ fn_args.V.v >= 0
    /\ fn_args.rho.v > 0

\* C1 as claimed: for every P, V >= 0 and rho > 0,
\* total_to_static_pressure(static_to_total_pressure(P, V, rho), V, rho)
\* equals P.
C1_RoundTripIsExact ==
    PressureRoundTrip => FEq(fn_trace[2].ret, fn_args.x)

\* C1 as amended: for every finite P, V >= 0 and rho > 0 the pressure round
\* trip returns P up to the rounding of the addition and the subtraction
\* (at most half an ulp of the total plus half an ulp of the result), and
\* exactly P when the sum P + 0.5*rho*V^2 is computed without rounding.
C1_RoundTripWithinRounding ==
    PressureRoundTrip =>
        WithinRounding(fn_args.x, DynamicPressure(fn_args.V, fn_args.rho),
                       fn_trace[1].ret, fn_trace[2].ret)

\* a pressure round trip that did not return P
C1_Witness ==
    /\ PressureRoundTrip
    /\ fn_args.V.v > 0
    /\ ~FEq(fn_trace[2].ret, fn_args.x)

TemperatureRoundTrip ==
    /\ Calls(<<"static_to_total_temperature", "total_to_static_temperature">>)
    /\ fn_args.V.v >= 0
    /\ ~IsZero(fn_args.Cp)

\* C2 as claimed: for every T, V >= 0 and Cp # 0,
\* total_to_static_temperature(static_to_total_temperature(T, V, Cp), V, Cp)
\* equals T.
C2_RoundTripIsExact ==
    TemperatureRoundTrip => FEq(fn_trace[2].ret, fn_args.x)

\* C2 as amended: for every finite T, V >= 0 and Cp # 0 the temperature
\* round trip returns T up to the rounding of the addition and the
\* subtraction, and exactly T when the sum T + 0.5*V^2/Cp is computed
\* without rounding.
C2_RoundTripWithinRounding ==
    TemperatureRoundTrip =>
        WithinRounding(fn_args.x, KineticRise(fn_args.V, fn_args.Cp),
                       fn_trace[1].ret, fn_trace[2].ret)

\* a temperature round trip that did not return T
C2_Witness ==
    /\ TemperatureRoundTrip
    /\ fn_args.V.v > 0
    /\ ~FEq(fn_trace[2].ret, fn_args.x)

\* C3: at V = 0 static_to_total_pressure returns P for every rho,
\* static_to_total_temperature and measured_to_total_temperature return T
\* for every Cp # 0 (and every rf), and the first entry of each script's
\* recorded difference series is exactly 0.
C3_ZeroVelocityIsIdentity ==
    /\ (Calls(<<"static_to_total_pressure">>) /\ IsZero(fn_args.V)
            => FEq(fn_trace[1].ret, fn_args.x))
    /\ (Calls(<<"static_to_total_temperature">>) /\ IsZero(fn_args.V)
        /\ ~IsZero(fn_args.Cp)
            => FEq(fn_trace[1].ret, fn_args.x))
    /\ (Calls(<<"measured_to_total_temperature">>) /\ IsZero(fn_args.V)
        /\ ~IsZero(fn_args.Cp)
            => FEq(fn_trace[1].ret, fn_args.x))
    /\ (P_relative_diff_total_static # <<>>
            => FEq(P_relative_diff_total_static[1], Zero))
    /\ (T_diff_measured_static # <<>>
            => FEq(T_diff_measured_static[1], Zero))

\* the pressure script has recorded the entry of its first sample, V = 0
C3_Witness ==
    /\ program = "pressure"
    /\ iP = 1
    /\ IsZero(velocitiesP[1])
    /\ Len(P_relative_diff_total_static) = 1

MeasuredWithRfOne ==
    /\ Calls(<<"measured_to_total_temperature">>)
    /\ FEq(fn_args.rf, One)

\* C4 as claimed: with rf = 1, measured_to_total_temperature returns
\* T_measured unchanged for every V and every Cp, Cp = 0 included.
C4_RfOneAlwaysUnchanged ==
    MeasuredWithRfOne => FEq(fn_trace[1].ret, fn_args.x)

\* C4 as amended: with rf = 1, measured_to_total_temperature returns
\* T_measured unchanged for every finite V and every Cp # 0; with Cp = 0 it
\* returns no value (ZeroDivisionError) for Python numbers and nan for a
\* numpy.float64 velocity.
C4_RfOneUnchangedUnlessCpZero ==
    MeasuredWithRfOne =>
        IF ~IsZero(fn_args.Cp) THEN FEq(fn_trace[1].ret, fn_args.x)
        ELSE IF fn_args.V.np THEN fn_trace[1].ret.cls = "nan"
        ELSE fn_trace[1].ret.cls = "err"

\* measured_to_total_temperature called with rf = 1, V > 0 and Cp # 0
C4_Witness ==
    /\ MeasuredWithRfOne
    /\ fn_args.V.v > 0
    /\ ~IsZero(fn_args.Cp)
    /\ ~IsZero(fn_args.x)

\* the writes of a chart file
WritesOf(name) == {k \in DOMAIN files : files[k].name = name}

\* C5: each chart file is written exactly once per run and holds the
\* plotted line chart: the write is made while the plotted figure is still
\* the current figure, never after show() has closed it.
C5_FileHoldsTheChart ==
    /\ Cardinality(WritesOf(PressureChart)) =
           (IF program = "pressure" /\ pcP \in {"show", "done"} THEN 1 ELSE 0)
    /\ Cardinality(WritesOf(TemperatureChart)) =
           (IF program = "temperature" /\ pcT = "done" THEN 1 ELSE 0)
    /\ \A k \in WritesOf(PressureChart) :
           files[k].lines =
               <<[x |-> velocitiesP, y |-> P_relative_diff_total_static]>>
    /\ \A k \in WritesOf(TemperatureChart) :
           files[k].lines =
               <<[x |-> velocitiesT, y |-> T_diff_measured_static]>>

\* velocities holds NumSamples samples from 0 to MaxVelocity inclusive, each
\* sample i within rounding of (i - 1) * MaxVelocity / (NumSamples - 1)
LinearSweep(velocities) ==
    /\ Len(velocities) = NumSamples
    /\ FEq(velocities[1], Zero)
    /\ FEq(velocities[NumSamples], Lit(MaxVelocity, 1))
    /\ \A i \in 1..NumSamples :
           /\ IsFin(velocities[i])
           /\ (i > 1 => velocities[i - 1].v < velocities[i].v)
           /\ 2 * Abs((NumSamples - 1) * velocities[i].v
                      - MaxVelocity * Quantum * (i - 1))
                  <= (NumSamples - 1) * ((i - 1) + Ulp(velocities[i].v))

\* the relative pressure difference of the sample V, in percent
RelativeDifference(V, r) ==
    FDiv(FMul(Hundred,
              FSub(FDiv(FAdd(FMul(P_static, PaPerBar), DynamicPressure(V, r)),
                        PaPerBar),
                   P_static)),
         P_static)

\* the result series of both scripts hold one entry per consumed sample
SeriesAligned ==
    /\ Len(P_static_values) = iP
    /\ Len(P_relative_diff_total_static) = iP
    /\ Len(T_static_values) = iT
    /\ Len(T_measured_values) = iT
    /\ Len(T_diff_measured_static) = iT

\* entry i of every series is the one computed from velocity sample i
EntriesFromSamples ==
    /\ \A i \in 1..iP :
           /\ P_static_values[i] = P_static
           /\ P_relative_diff_total_static[i] =
                  RelativeDifference(velocitiesP[i], rho)
    /\ \A i \in 1..iT :
           LET T_static == FSub(T_total, KineticRise(velocitiesT[i], Cp))
               T_measured ==
                   FAdd(T_static,
                        FDiv(FMul(FMul(FSub(One, rf), Half),
                                  FSquare(velocitiesT[i])), Cp))
           IN  /\ T_static_values[i] = T_static
               /\ T_measured_values[i] = T_measured
               /\ T_diff_measured_static[i] = FSub(T_measured, T_static)

SweepShape ==
    /\ (program = "pressure" /\ pcP \notin {"lookup", "linspace"}
            => LinearSweep(velocitiesP))
    /\ (program = "temperature" /\ pcT # "linspace"
            => LinearSweep(velocitiesT))
    /\ SeriesAligned
    /\ EntriesFromSamples
    /\ (pcP \notin {"lookup", "linspace", "sweep"} => iP = NumSamples)
    /\ (pcT \notin {"linspace", "sweep"} => iT = NumSamples)

\* s grew by at most one appended entry, the entries it had unchanged
GrewByAppend(s, t) ==
    /\ Len(t) \in {Len(s), Len(s) + 1}
    /\ SubSeq(t, 1, Len(s)) = s

SeriesOnlyGrow ==
    /\ GrewByAppend(P_static_values, P_static_values')
    /\ GrewByAppend(P_relative_diff_total_static,
                    P_relative_diff_total_static')
    /\ GrewByAppend(T_static_values, T_static_values')
    /\ GrewByAppend(T_measured_values, T_measured_values')
    /\ GrewByAppend(T_diff_measured_static, T_diff_measured_static')
    /\ (P_static_values # <<>> => velocitiesP' = velocitiesP)
    /\ (T_static_values # <<>> => velocitiesT' = velocitiesT)

\* C6: each script generates exactly 100 velocity samples linearly spaced
\* from 0 to 300 inclusive; during the sweep every result series only
\* grows by one appended entry per sample (k entries after k iterations,
\* the earlier ones unchanged), and when the sweep has ended every series
\* holds 100 entries, entry i computed from velocity sample i.
C6_SweepShapeAndAlignment == [](SweepShape) /\ [][SeriesOnlyGrow]_vars

\* both sweeps are reached complete: here the temperature script's
C6_Witness ==
    /\ program = "temperature"
    /\ pcT = "done"
    /\ Len(T_diff_measured_static) = NumSamples
    /\ FEq(velocitiesT[NumSamples], Lit(MaxVelocity, 1))

TemperatureOps == {"static_to_total_temperature",
                   "total_to_static_temperature",
                   "measured_to_total_temperature"}

TemperatureCallWithCpZero ==
    /\ program = "calls"
    /\ Len(fn_trace) >= 1
    /\ fn_trace[1].op \in TemperatureOps
    /\ IsZero(fn_args.Cp)

\* C7 as claimed: with Cp = 0 every temperature conversion ends in a
\* division-by-zero fault instead of returning a value (read here for
\* Python-number arguments, where it holds), and a temperature sweep run
\* with Cp = 0 ends with that fault at the first sample, recording no entry
\* and writing no chart file.
C7_CpZeroIsFatal ==
    /\ (TemperatureCallWithCpZero /\ ~fn_args.V.np
            => fn_trace[1].ret.cls = "err")
    /\ (program = "temperature" /\ IsZero(Cp) =>
            /\ pcT \in {"linspace", "sweep", "fault"}
            /\ T_static_values = <<>>
            /\ T_measured_values = <<>>
            /\ T_diff_measured_static = <<>>
            /\ WritesOf(TemperatureChart) = {})

NonFinite(a) == a.cls \in {"nan", "inf"}

\* C7 as amended: with Cp = 0 a temperature conversion of Python numbers
\* raises ZeroDivisionError; with a numpy.float64 velocity the division
\* yields nan or an infinity (and a warning), so the conversion returns a
\* non-finite value, and a temperature sweep run with Cp = 0, whose samples
\* are numpy.float64, never faults: it records a non-finite entry in every
\* series for each of the 100 samples and goes on to the plot statements.
C7_CpZeroFaultsOnlyPythonNumbers ==
    /\ (TemperatureCallWithCpZero =>
            IF fn_args.V.np THEN NonFinite(fn_trace[1].ret)
            ELSE fn_trace[1].ret.cls = "err")
    /\ (program = "temperature" /\ IsZero(Cp) =>
            /\ pcT # "fault"
            /\ Len(T_static_values) = iT
            /\ \A i \in 1..iT :
                   /\ NonFinite(T_static_values[i])
                   /\ NonFinite(T_measured_values[i])
                   /\ NonFinite(T_diff_measured_static[i])
            /\ (pcT \notin {"linspace", "sweep"} => iT = NumSamples))

\* the temperature sweep run with Cp = 0 has passed all its samples
C7_Witness ==
    /\ program = "temperature"
    /\ IsZero(Cp)
    /\ pcT = "figure"
    /\ Len(T_diff_measured_static) = NumSamples

\* rounding allowed when two temperatures are compared
TemperatureTolerance == 2 * Ulp(T_total.v)

Near(a, b) ==
    /\ IsFin(a)
    /\ IsFin(b)
    /\ Abs(a.v - b.v) <= TemperatureTolerance

\* rf * 0.5 * V**2 / Cp: the fraction rf of the kinetic temperature rise
RecoveredRise(V, c) == FDiv(FMul(FMul(rf, Half), FSquare(V)), c)

\* C8: for every sample V the temperature script records
\* T_static = T_total - 0.5*V^2/Cp and a measured temperature that exceeds
\* T_static by the fraction rf of the kinetic temperature rise:
\* measured - static = rf * 0.5*V^2/Cp (compared within the rounding of
\* adding the rise to T_static and subtracting T_static again).
C8_DifferenceIsRfTimesKineticRise ==
    program = "temperature" =>
        \A i \in 1..Len(T_diff_measured_static) :
            /\ T_static_values[i] =
                   FSub(T_total, KineticRise(velocitiesT[i], Cp))
            /\ Near(T_diff_measured_static[i],
                    RecoveredRise(velocitiesT[i], Cp))

PressureValues ==
    /\ (rho = Unset <=> pcP = "lookup")
    /\ (rho # Unset => rho.cls = "fin" /\ rho.v > 0)
    /\ (pcP = "lookup" => P_relative_diff_total_static = <<>>)
    /\ Len(P_static_values) = Len(P_relative_diff_total_static)
    /\ \A i \in 1..Len(P_relative_diff_total_static) :
           /\ P_relative_diff_total_static[i] =
                  RelativeDifference(velocitiesP[i], rho)
           /\ IsFin(P_relative_diff_total_static[i])
           /\ P_relative_diff_total_static[i].v >= 0
           /\ (i > 1 => P_relative_diff_total_static[i - 1].v
                            <= P_relative_diff_total_static[i].v)
           /\ P_static_values[i] = P_static
    /\ (pcP \notin {"lookup", "linspace", "sweep"}
            => Len(P_relative_diff_total_static) = NumSamples)

\* C9: the density is looked up once, before the sweep, and no iteration
\* changes it; for every sample V the recorded value is
\* 100 * (P_total - P_static) / P_static with
\* P_total = (P_static*1e5 + 0.5*rho*V^2) / 1e5, so the recorded series is
\* non-negative and non-decreasing and the static series is constantly
\* P_static.
C9_PressureSeries ==
    [](PressureValues) /\ [][rho # Unset => rho' = rho]_vars

\* the pressure sweep is complete and its last entry is positive
C9_Witness ==
    /\ program = "pressure"
    /\ pcP = "done"
    /\ Len(P_relative_diff_total_static) = NumSamples
    /\ P_relative_diff_total_static[NumSamples].v > 0

\* C10: for every sample V of the temperature sweep,
\* measured_to_total_temperature applied to the measured temperature the
\* script computed for V (same Cp, same rf) returns T_total (compared
\* within rounding).
C10_MeasuredConvertsBackToTotal ==
    program = "temperature" =>
        \A i \in 1..Len(T_measured_values) :
            Near(measured_to_total_temperature(T_measured_values[i],
                                               velocitiesT[i], Cp, rf),
                 T_total)

=============================================================================
